---- MODULE Spec2Model ----
(***************************************************************************)
(* Model of the filtering-and-scoring engine of the foster-animal          *)
(* recommendation system: class AnimalFilter (animal_filter.py) as it is   *)
(* driven by AnimalRecommendationSystem (main.py).                         *)
(*                                                                         *)
(* Conventions.                                                            *)
(*  - Korean string constants of the source are romanised: the status      *)
(*    sentinel is "imbo_ganeung", the nationwide sentinel is "jeonguk".    *)
(*  - A Python str that the code searches with `in` is a sequence of       *)
(*    syllables (a tuple of one-syllable strings); `a in b` is IsSubstr.   *)
(*  - None and NaN are the value None.                                     *)
(*  - A float is an exact fraction <<num, den>> in lowest terms, den > 0.  *)
(*  - A pandas DataFrame is [cols, rows]: cols is "none" for a frame       *)
(*    without columns (pd.DataFrame()), "base" for the record columns,     *)
(*    "scored" for the record columns plus match_score; rows is the        *)
(*    sequence of rows [idx, a, match_score]: idx the row's index label,   *)
(*    a the name of the record (Rec(row) is the record), match_score None  *)
(*    in a frame without that column.                                      *)
(***************************************************************************)
EXTENDS Integers, Sequences, FiniteSets, TLC

VARIABLES
    processed_data,    \* main.py: self.processed_data, the loaded record set
    animals,           \* AnimalFilter.animals
    filtered_results,  \* AnimalFilter.filtered_results
    call,              \* the most recent apply_filters / apply_soft_filtering call
    ret,               \* the DataFrame that call returned (when it returned)
    raised,            \* the exception that call ended with, or "none"
    match_scores,      \* apply_soft_filtering's match_scores: per available row
                       \* the score and the dimension scores it was made of
    loaded,            \* what set_animals loaded last: "data" or "result"
    batch              \* batch_processing_mode: its position in the loop over
                       \* the profiles, hard_results and results_summary

vars == <<processed_data, animals, filtered_results, call, ret, raised,
          match_scores, loaded, batch>>

(***************************************************************************)
(* Bounds of the model.                                                    *)
(***************************************************************************)
MaxRecords == 2

(***************************************************************************)
(* Values.                                                                 *)
(***************************************************************************)
\* An optional value is a set: {} is None / NaN / a key the dict does not
\* have, {v} is the value v.
None == {}
Some(v) == {v}
Val(o) == CHOOSE v \in o : TRUE

AVAILABLE == "imbo_ganeung"
NATIONWIDE == "jeonguk"

\* ---- exact fractions --------------------------------------------------
RECURSIVE GCD(_, _)
GCD(a, b) == IF b = 0 THEN a ELSE GCD(b, a % b)

Abs(n) == IF n < 0 THEN -n ELSE n

Frac(n, d) ==
    LET g == GCD(Abs(n), d)
    IN  IF n = 0 THEN <<0, 1>> ELSE <<n \div g, d \div g>>

FAdd(x, y) == Frac(x[1] * y[2] + y[1] * x[2], x[2] * y[2])
FMul(x, y) == Frac(x[1] * y[1], x[2] * y[2])
FDiv(x, y) == Frac(x[1] * y[2], x[2] * y[1])      \* y > 0
FSub(x, y) == Frac(x[1] * y[2] - y[1] * x[2], x[2] * y[2])
FLeq(x, y) == x[1] * y[2] <= y[1] * x[2]
FLt(x, y)  == x[1] * y[2] <  y[1] * x[2]
FZero == <<0, 1>>
FOne  == <<1, 1>>
FHalf == <<1, 2>>
F07   == <<7, 10>>

\* ---- Python str `in` --------------------------------------------------
IsSubstr(s, t) ==
    \E i \in 0..(Len(t) - Len(s)) :
        \A k \in 1..Len(s) : t[i + k] = s[k]

\* `x in lst` for a list
InList(x, lst) == \E i \in 1..Len(lst) : lst[i] = x

\* (a variant that only finds the requested tag inside the record's tag)
TagMatchOneWay(a, b) == IsSubstr(a, b)

\* the tag / home-type match of _filter_by_hashtags, _filter_by_suitable_homes
\* and _calculate_personality_score: substring in either direction
TagMatch(a, b) == IsSubstr(a, b) \/ IsSubstr(b, a)

\* ---- text -------------------------------------------------------------
\* A raw CSV cell kept as it is (medical_history, additional_conditions):
\* a str, or NaN when the cell is empty (NaN is truthy in Python), or None.
Text(s) == [kind |-> "str", s |-> s]
NaN == [kind |-> "NaN", s |-> <<>>]
NoText == [kind |-> "None", s |-> <<>>]

\* bool(x) of such a cell: None and "" are falsy, NaN is truthy
TruthyText(t) == t.kind = "NaN" \/ (t.kind = "str" /\ Len(t.s) > 0)

\* str.lower() per syllable; "PCR" is the one cased syllable of the model
LowerSyl(c) == IF c = "PCR" THEN "pcr" ELSE c
Lower(s) == [i \in 1..Len(s) |-> LowerSyl(s[i])]

\* str(x).lower() of a truthy cell: str(nan) is "nan"
StrLower(t) == IF t.kind = "NaN" THEN <<"nan">> ELSE Lower(t.s)

(***************************************************************************)
(* The records the inputs are drawn from.  Each is one row as              *)
(* DataPreprocessor._process_animal_data builds it (the fields the engine  *)
(* reads), except Bare, whose nested fields are not dicts.                 *)
(***************************************************************************)
TagAegyoJaengi == <<"ae", "gyo", "jaeng", "i">>
TagSaramJoa    == <<"sa", "ram", "jo", "a">>
TagAegyo       == <<"ae", "gyo">>
TagSosim       == <<"so", "sim">>
TagSosimHan    == <<"so", "sim", "han">>
HomeApt        == <<"a", "pa", "teu">>
HomeAptFirst   == <<"a", "pa", "teu", "cho", "bo">>
PickupDirect   == <<"jik", "jeop", "pik", "eop">>
PickupWord     == <<"pik", "eop">>
Heartworm      == <<"sim", "jang", "sa", "sang", "chung">>
Worm           == <<"sa", "sang", "chung">>

Vacc(n) == [k \in 1..n |-> [round |-> k, date |-> "21.01.01"]]

Dog1 ==
    [status |-> AVAILABLE, gender |-> "male", care_type |-> "general",
     rescue_location |-> "Seoul", age |-> Some(3), weight |-> Some(8),
     neutered |-> Some(TRUE), hashtags |-> <<TagAegyoJaengi, TagSaramJoa>>,
     care_conditions |-> Some([region |-> NATIONWIDE, duration |-> Some(3),
                               pickup |-> PickupDirect,
                               additional_conditions |-> NaN,
                               suitable_homes |-> <<HomeAptFirst>>]),
     health_info |-> Some([vaccination |-> Some(Vacc(2)),
                           medical_history |-> NoText]),
     behavior_traits |-> Some([affection |-> Some(4), barking |-> Some(2)])]

Dog2 ==
    [status |-> AVAILABLE, gender |-> "female", care_type |-> "urgent",
     rescue_location |-> "Busan", age |-> None, weight |-> None,
     neutered |-> None, hashtags |-> <<>>,
     care_conditions |-> Some([region |-> "Busan", duration |-> None,
                               pickup |-> <<>>,
                               additional_conditions |-> NoText,
                               suitable_homes |-> <<>>]),
     health_info |-> Some([vaccination |-> None,
                           medical_history |-> Text(Heartworm)]),
     behavior_traits |-> Some([affection |-> None, barking |-> Some(2)])]

Dog3 ==
    [status |-> AVAILABLE, gender |-> "female", care_type |-> "general",
     rescue_location |-> "Seoul", age |-> Some(6), weight |-> Some(20),
     neutered |-> Some(FALSE), hashtags |-> <<TagSosim>>,
     care_conditions |-> Some([region |-> "Seoul", duration |-> Some(6),
                               pickup |-> PickupWord,
                               additional_conditions |-> Text(<<"PCR">>),
                               suitable_homes |-> <<HomeApt>>]),
     health_info |-> Some([vaccination |-> Some(Vacc(1)),
                           medical_history |-> NaN]),
     behavior_traits |-> Some([affection |-> Some(2), barking |-> Some(5)])]

\* a record that is not available (status "imbo_jung": in foster care)
Dog4 == [Dog1 EXCEPT !.status = "imbo_jung"]

\* a record whose nested fields are not dicts
Bare ==
    [Dog3 EXCEPT !.care_conditions = None, !.health_info = None,
                 !.behavior_traits = None, !.age = Some(3)]

\* the status of a record whose status cell is missing:
\* str(animal.get(<status column>, '')).strip() of a NaN cell
StatusNaN == "nan"

\* a record without a status
NoStatus == [Dog3 EXCEPT !.status = StatusNaN]

\* A row of a frame holds the name of its record; Rec gives the record.
AnimalPool == {"Dog1", "Dog2", "Dog3", "Dog4", "Bare", "NoStatus"}

Fields(name) ==
    CASE name = "Dog1" -> Dog1
      [] name = "Dog2" -> Dog2
      [] name = "Dog3" -> Dog3
      [] name = "Dog4" -> Dog4
      [] name = "Bare" -> Bare
      [] name = "NoStatus" -> NoStatus

Rec(r) == Fields(r.a)

\* ---- DataFrame --------------------------------------------------------
\* pd.DataFrame()
EmptyFrame == [cols |-> "none", rows |-> <<>>]

\* pd.DataFrame(processed_list): RangeIndex 0..n-1; no columns without rows
NewFrame(recs) ==
    IF Len(recs) = 0 THEN EmptyFrame
    ELSE [cols |-> "base",
          rows |-> [i \in 1..Len(recs) |->
                       [idx |-> i - 1, a |-> recs[i], match_score |-> None]]]

\* DataFrame.empty
IsEmpty(df) == df.cols = "none" \/ Len(df.rows) = 0

RecordSeqs == UNION {[1..n -> AnimalPool] : n \in 0..MaxRecords}

\* An exception in flight through a chain of filters (no frame is produced)
KeyErr == [cols |-> "KeyError", rows |-> <<>>]
AttrErr == [cols |-> "AttributeError", rows |-> <<>>]
IsErr(df) == df.cols \in {"KeyError", "AttributeError"}

\* the rows of a frame, as a set (index labels are unique in a frame)
Rows(df) == {df.rows[i] : i \in 1..Len(df.rows)}

\* df[mask] with a boolean mask computed from df[col], kept being the rows
\* where the mask is True: KeyError when df has no columns
Mask(df, kept) ==
    LET In(r) == r \in kept
    IN  IF df.cols \in {"none", "KeyError"} THEN KeyErr
        ELSE [df EXCEPT !.rows = SelectSeq(df.rows, In)]

\* df[df[col].apply(f)]: Series.apply on a Series without rows returns an
\* empty Series of the column's dtype (object), which DataFrame.__getitem__
\* does not take for a boolean mask but for a list of column labels: the
\* result is a frame without columns
ApplyMask(df, kept) ==
    LET In(r) == r \in kept
    IN  IF df.cols \in {"none", "KeyError"} THEN KeyErr
        ELSE IF Len(df.rows) = 0 THEN EmptyFrame
        ELSE [df EXCEPT !.rows = SelectSeq(df.rows, In)]

(***************************************************************************)
(* Hard filtering: AnimalFilter.apply_filters and its _filter_by_* steps.  *)
(* Filter criteria are a record of the eleven keys, each None when the     *)
(* dict does not have the key.                                             *)
(***************************************************************************)
CriteriaKeys ==
    {"region", "gender", "care_type", "age_range", "weight_range", "neutered",
     "hashtags", "suitable_homes", "behavior_traits", "health_requirements",
     "care_preferences"}

\* Union[str, List[str]]: isinstance(x, str) wraps the str into a list
StrArg(x) == [isstr |-> TRUE, s |-> x, v |-> <<>>]
ListArg(l) == [isstr |-> FALSE, s |-> "", v |-> l]
AsList(x) == IF x.isstr THEN <<x.s>> ELSE x.v
TruthyArg(x) == IF x.isstr THEN x.s # "" ELSE Len(x.v) > 0

\* a {min, max} dict, either key optional; {} is falsy
Range(lo, hi) == [isdict |-> TRUE, min |-> lo, max |-> hi]
\* a value that is not a dict where a range is expected: the list [1, 5]
NotADict == [isdict |-> FALSE, min |-> None, max |-> None]
TruthyRange(r) == ~r.isdict \/ r.min # None \/ r.max # None

\* dict.get(key, default)
GetOr(o, default) == IF o = None THEN default ELSE Val(o)

\* (a variant without the nationwide test)
in_region_location_only(animal, regions) ==
    InList(animal.rescue_location, AsList(regions))

\* The row masks of the filters that compare columns.
in_region(animal, regions) ==
    \/ InList(animal.rescue_location, AsList(regions))
    \/ /\ animal.care_conditions # None
       /\ Val(animal.care_conditions).region = NATIONWIDE

in_genders(animal, genders) == InList(animal.gender, AsList(genders))

in_care_types(animal, care_types) == InList(animal.care_type, AsList(care_types))

\* (a variant whose upper bound is exclusive)
in_range_exclusive(value, lo, hi) ==
    /\ value # None
    /\ Val(value) >= lo
    /\ Val(value) < hi

\* (col >= min) & (col <= max) & col.notna(); a comparison with NaN is False
in_range(value, lo, hi) ==
    /\ value # None
    /\ Val(value) >= lo
    /\ Val(value) <= hi

\* (a variant that only rejects the opposite value)
neutered_is_not_opposite(animal, neutered) ==
    animal.neutered # Some(~neutered)

neutered_is(animal, neutered) == animal.neutered = Some(neutered)

_filter_by_region(df, regions) ==
    Mask(df, {r \in Rows(df) : in_region(Rec(r), regions)})

\* (a variant that also drops the first match)
_filter_by_gender_tail(df, genders) ==
    LET out == Mask(df, {r \in Rows(df) : in_genders(Rec(r), genders)})
    IN  IF Len(out.rows) = 0 THEN out ELSE [out EXCEPT !.rows = Tail(out.rows)]

_filter_by_gender(df, genders) ==
    Mask(df, {r \in Rows(df) : in_genders(Rec(r), genders)})

_filter_by_care_type(df, care_types) ==
    Mask(df, {r \in Rows(df) : in_care_types(Rec(r), care_types)})

\* age_range.get('min', 0) raises AttributeError when age_range is not a
\* dict, before the frame is read
_filter_by_age_range(df, age_range) ==
    LET min_age == GetOr(age_range.min, 0)
        max_age == GetOr(age_range.max, 100)
    IN  IF ~age_range.isdict THEN AttrErr
        ELSE Mask(df, {r \in Rows(df) : in_range(Rec(r).age, min_age, max_age)})

_filter_by_weight_range(df, weight_range) ==
    LET min_weight == GetOr(weight_range.min, 0)
        max_weight == GetOr(weight_range.max, 100)
    IN  IF ~weight_range.isdict THEN AttrErr
        ELSE Mask(df, {r \in Rows(df) :
                          in_range(Rec(r).weight, min_weight, max_weight)})

_filter_by_neutered(df, neutered) ==
    Mask(df, {r \in Rows(df) : neutered_is(Rec(r), neutered)})

\* any(any(a in b or b in a for b in have) for a in wanted)
AnyTagMatch(wanted, have) ==
    \E i \in 1..Len(wanted) : \E j \in 1..Len(have) :
        TagMatch(wanted[i], have[j])

has_matching_hashtag(hashtags, required_hashtags) ==
    IF Len(hashtags) = 0 THEN FALSE
    ELSE AnyTagMatch(required_hashtags, hashtags)

_filter_by_hashtags(df, required_hashtags) ==
    ApplyMask(df, {r \in Rows(df) : has_matching_hashtag(Rec(r).hashtags, required_hashtags)})

matches_home_type(care_conditions, home_types) ==
    IF care_conditions = None THEN FALSE
    ELSE LET suitable_homes == Val(care_conditions).suitable_homes
         IN  IF Len(suitable_homes) = 0 THEN FALSE
             ELSE AnyTagMatch(home_types, suitable_homes)

_filter_by_suitable_homes(df, home_types) ==
    ApplyMask(df, {r \in Rows(df) : matches_home_type(Rec(r).care_conditions, home_types)})

\* A trait requirement is a dict with optional keys min, max, exact; the
\* requirements are a function from the requested trait names.
Req(lo, hi, ex) == [min |-> lo, max |-> hi, exact |-> ex]

\* (a variant in which an unknown trait value rejects the record)
TraitOkUnknownRejects(animal_value, requirement) ==
    /\ animal_value # None
    /\ ~(requirement.min # None /\ Val(animal_value) < Val(requirement.min))
    /\ ~(requirement.max # None /\ Val(animal_value) > Val(requirement.max))
    /\ ~(requirement.exact # None /\ Val(animal_value) # Val(requirement.exact))

TraitOk(animal_value, requirement) ==
    \/ animal_value = None                                   \* continue
    \/ /\ ~(requirement.min # None /\ Val(animal_value) < Val(requirement.min))
       /\ ~(requirement.max # None /\ Val(animal_value) > Val(requirement.max))
       /\ ~(requirement.exact # None /\ Val(animal_value) # Val(requirement.exact))

\* (a variant that lets a record without behavior_traits pass)
meets_behavior_requirements_or_absent(behavior_traits, trait_requirements) ==
    IF behavior_traits = None THEN TRUE
    ELSE \A t \in DOMAIN trait_requirements :
            TraitOk(Val(behavior_traits)[t], trait_requirements[t])

meets_behavior_requirements(behavior_traits, trait_requirements) ==
    IF behavior_traits = None THEN FALSE
    ELSE \A t \in DOMAIN trait_requirements :
            TraitOk(Val(behavior_traits)[t], trait_requirements[t])

_filter_by_behavior_traits(df, trait_requirements) ==
    ApplyMask(df, {r \in Rows(df) : meets_behavior_requirements(Rec(r).behavior_traits, trait_requirements)})

\* any(condition.lower() in text for condition in exclude_conditions)
HasExcluded(text, exclude_conditions) ==
    \E i \in 1..Len(exclude_conditions) :
        IsSubstr(Lower(exclude_conditions[i]), text)

\* health_reqs: optional keys min_vaccinations, no_medical_history,
\* exclude_conditions
meets_health_requirements(health_info, health_reqs) ==
    IF health_info = None THEN FALSE
    ELSE LET h == Val(health_info)
             vaccinated == h.vaccination # None /\ Len(Val(h.vaccination)) > 0
         IN  /\ ~(/\ health_reqs.min_vaccinations # None
                  /\ vaccinated
                  /\ Len(Val(h.vaccination)) < Val(health_reqs.min_vaccinations))
             /\ ~(/\ GetOr(health_reqs.no_medical_history, FALSE)
                  /\ TruthyText(h.medical_history))
             /\ ~(/\ health_reqs.exclude_conditions # None
                  /\ TruthyText(h.medical_history)
                  /\ HasExcluded(StrLower(h.medical_history),
                                 Val(health_reqs.exclude_conditions)))

_filter_by_health_requirements(df, health_reqs) ==
    ApplyMask(df, {r \in Rows(df) : meets_health_requirements(Rec(r).health_info, health_reqs)})

\* care_prefs: optional keys max_duration, pickup_method, exclude_conditions
meets_care_preferences(care_conditions, care_prefs) ==
    IF care_conditions = None THEN FALSE
    ELSE LET c == Val(care_conditions)
             has_duration == c.duration # None /\ Val(c.duration) # 0
         IN  /\ ~(/\ care_prefs.max_duration # None
                  /\ has_duration
                  /\ Val(c.duration) > Val(care_prefs.max_duration))
             /\ ~(/\ care_prefs.pickup_method # None
                  /\ Len(c.pickup) > 0
                  /\ ~IsSubstr(Val(care_prefs.pickup_method), c.pickup))
             /\ ~(/\ care_prefs.exclude_conditions # None
                  /\ TruthyText(c.additional_conditions)
                  /\ HasExcluded(StrLower(c.additional_conditions),
                                 Val(care_prefs.exclude_conditions)))

_filter_by_care_preferences(df, care_prefs) ==
    ApplyMask(df, {r \in Rows(df) : meets_care_preferences(Rec(r).care_conditions, care_prefs)})

TruthyDict(d) == \E k \in DOMAIN d : d[k] # None

\* (a variant that tests neutered by truthiness, like the other keys)
ActiveByTruth(c, key) ==
    /\ c[key] # None
    /\ CASE key \in {"region", "gender", "care_type"} -> TruthyArg(Val(c[key]))
         [] key \in {"age_range", "weight_range"} -> TruthyRange(Val(c[key]))
         [] key = "neutered" -> Val(c[key]) = Some(TRUE)
         [] key \in {"hashtags", "suitable_homes"} -> Len(Val(c[key])) > 0
         [] key = "behavior_traits" -> DOMAIN Val(c[key]) # {}
         [] OTHER -> TruthyDict(Val(c[key]))

\* `key in filter_criteria and filter_criteria[key]` (for neutered:
\* `is not None`)
Active(c, key) ==
    /\ c[key] # None
    /\ CASE key \in {"region", "gender", "care_type"} -> TruthyArg(Val(c[key]))
         [] key \in {"age_range", "weight_range"} -> TruthyRange(Val(c[key]))
         [] key = "neutered" -> Val(c[key]) # None
         [] key \in {"hashtags", "suitable_homes"} -> Len(Val(c[key])) > 0
         [] key = "behavior_traits" -> DOMAIN Val(c[key]) # {}
         [] OTHER -> TruthyDict(Val(c[key]))

\* results = self._filter_by_<key>(results, filter_criteria[key])
RunFilter(results, key, v) ==
    CASE key = "region" -> _filter_by_region(results, v)
      [] key = "gender" -> _filter_by_gender(results, v)
      [] key = "care_type" -> _filter_by_care_type(results, v)
      [] key = "age_range" -> _filter_by_age_range(results, v)
      [] key = "weight_range" -> _filter_by_weight_range(results, v)
      [] key = "neutered" -> _filter_by_neutered(results, Val(v))
      [] key = "hashtags" -> _filter_by_hashtags(results, v)
      [] key = "suitable_homes" -> _filter_by_suitable_homes(results, v)
      [] key = "behavior_traits" -> _filter_by_behavior_traits(results, v)
      [] key = "health_requirements" ->
             _filter_by_health_requirements(results, v)
      [] key = "care_preferences" -> _filter_by_care_preferences(results, v)

\* (a variant whose hashtags step falls back to its input when nothing
\* matches)
StepOrAll(results, c, key) ==
    IF ~Active(c, key) \/ IsErr(results) THEN results
    ELSE LET out == RunFilter(results, key, Val(c[key]))
         IN  IF key = "hashtags" /\ Len(out.rows) = 0 THEN results ELSE out

\* one `if key in filter_criteria and filter_criteria[key]:` step; a step
\* that raised ends the call
Step(results, c, key) ==
    IF ~Active(c, key) \/ IsErr(results) THEN results
    ELSE RunFilter(results, key, Val(c[key]))

\* the order of the steps in apply_filters
FilterOrder ==
    <<"region", "gender", "care_type", "age_range", "weight_range", "neutered",
      "hashtags", "suitable_homes", "behavior_traits", "health_requirements",
      "care_preferences">>

\* the steps from the i-th on (each step's frame is computed once, then
\* handed to the next step)
RECURSIVE StepsFrom(_, _, _)
StepsFrom(results, c, i) ==
    IF i > Len(FilterOrder) THEN results
    ELSE CHOOSE out \in {StepsFrom(next, c, i + 1) :
                            next \in {Step(results, c, FilterOrder[i])}} : TRUE

\* (a variant without the status mask)
StatusGateNoMask(df) ==
    Mask(df, {r \in Rows(df) : TRUE})

\* (a variant that keeps every record that has a status)
StatusGateAnyStatus(df) ==
    Mask(df, {r \in Rows(df) : Rec(r).status # StatusNaN})

\* self.animals[self.animals['status'] == AVAILABLE].copy()
StatusGate(df) ==
    Mask(df, {r \in Rows(df) : Rec(r).status = AVAILABLE})

\* The outcome of apply_filters on the held frame df: the frame it returns,
\* or the exception (KeyErr, AttrErr) when a step raises.
apply_filters(df, filter_criteria) ==
    IF IsEmpty(df) THEN EmptyFrame
    ELSE StepsFrom(StatusGate(df), filter_criteria, 1)

(***************************************************************************)
(* Soft scoring: AnimalFilter.apply_soft_filtering and _calculate_*.       *)
(* Preferences are a record of the five dimension keys, each None when     *)
(* the dict does not have the key, and weights, a record of the five       *)
(* weight keys, each None when weights does not have it.                   *)
(***************************************************************************)
_calculate_region_score(animal, preferred_regions) ==
    IF /\ animal.care_conditions # None
       /\ Val(animal.care_conditions).region = NATIONWIDE
    THEN FOne
    ELSE IF InList(animal.rescue_location, preferred_regions) THEN FOne
    ELSE FZero

\* preferred.get('min', 0) <= value <= preferred.get('max', 100), where
\* preferred is pref.get(<tier>, {})
InTier(value, tier) ==
    LET lo == IF tier = None THEN 0 ELSE GetOr(Val(tier).min, 0)
        hi == IF tier = None THEN 100 ELSE GetOr(Val(tier).max, 100)
    IN  lo <= value /\ value <= hi

\* (a variant that scores an unknown age like an age outside both tiers)
_calculate_age_score_no_isna(animal, age_preference) ==
    IF animal.age = None THEN FZero
    ELSE IF InTier(Val(animal.age), age_preference.preferred) THEN FOne
    ELSE IF InTier(Val(animal.age), age_preference.acceptable) THEN F07
    ELSE FZero

\* (a variant that tests the acceptable tier before the preferred tier)
_calculate_age_score_acceptable_first(animal, age_preference) ==
    IF animal.age = None THEN FHalf
    ELSE IF InTier(Val(animal.age), age_preference.acceptable) THEN F07
    ELSE IF InTier(Val(animal.age), age_preference.preferred) THEN FOne
    ELSE FZero

_calculate_age_score(animal, age_preference) ==
    IF animal.age = None THEN FHalf
    ELSE IF InTier(Val(animal.age), age_preference.preferred) THEN FOne
    ELSE IF InTier(Val(animal.age), age_preference.acceptable) THEN F07
    ELSE FZero

_calculate_size_score(animal, size_preference) ==
    IF animal.weight = None THEN FHalf
    ELSE IF InTier(Val(animal.weight), size_preference.preferred) THEN FOne
    ELSE IF InTier(Val(animal.weight), size_preference.acceptable) THEN F07
    ELSE FZero

\* (a variant that divides by the number of hashtags of the record)
_calculate_personality_score_per_hashtag(animal, personality_traits) ==
    IF Len(animal.hashtags) = 0 THEN FHalf
    ELSE LET matches ==
                 {i \in 1..Len(personality_traits) :
                     \E j \in 1..Len(animal.hashtags) :
                         TagMatch(personality_traits[i], animal.hashtags[j])}
         IN  IF Len(personality_traits) > 0
             THEN Frac(Cardinality(matches), Len(animal.hashtags))
             ELSE FHalf

_calculate_personality_score(animal, personality_traits) ==
    IF Len(animal.hashtags) = 0 THEN FHalf
    ELSE LET matches ==
                 {i \in 1..Len(personality_traits) :
                     \E j \in 1..Len(animal.hashtags) :
                         TagMatch(personality_traits[i], animal.hashtags[j])}
         IN  IF Len(personality_traits) > 0
             THEN Frac(Cardinality(matches), Len(personality_traits))
             ELSE FHalf

\* the score one evaluated trait adds to total_score
TraitScore(animal_value, preference) ==
    IF preference.ideal # None /\ animal_value = Val(preference.ideal) THEN FOne
    ELSE IF animal_value \in preference.acceptable THEN F07
    ELSE LET distance == IF preference.ideal # None
                         THEN Abs(animal_value - Val(preference.ideal))
                         ELSE 0
             s == FSub(FOne, Frac(distance, 4))
         IN  IF FLt(s, FZero) THEN FZero ELSE s

RECURSIVE SumOver(_, _, _)
SumOver(S, traits, prefs) ==
    IF S = {} THEN FZero
    ELSE LET t == CHOOSE x \in S : TRUE
         IN  FAdd(TraitScore(Val(traits[t]), prefs[t]),
                  SumOver(S \ {t}, traits, prefs))

\* (a variant that divides by the number of traits of the preference map)
_calculate_behavior_score_all_traits(animal, behavior_prefs) ==
    IF animal.behavior_traits = None THEN FHalf
    ELSE LET traits == Val(animal.behavior_traits)
             valid == {t \in DOMAIN behavior_prefs : traits[t] # None}
         IN  IF Cardinality(valid) > 0
             THEN FDiv(SumOver(valid, traits, behavior_prefs),
                       Frac(Cardinality(DOMAIN behavior_prefs), 1))
             ELSE FHalf

_calculate_behavior_score(animal, behavior_prefs) ==
    IF animal.behavior_traits = None THEN FHalf
    ELSE LET traits == Val(animal.behavior_traits)
             valid == {t \in DOMAIN behavior_prefs : traits[t] # None}
         IN  IF Cardinality(valid) > 0
             THEN FDiv(SumOver(valid, traits, behavior_prefs),
                       Frac(Cardinality(valid), 1))
             ELSE FHalf

Dimensions == <<"region", "age", "size", "personality", "behavior">>

\* the preferences key of a dimension
PrefKey(d) ==
    CASE d = "region" -> "region"
      [] d = "age" -> "age_preference"
      [] d = "size" -> "size_preference"
      [] d = "personality" -> "personality_traits"
      [] d = "behavior" -> "behavior_preferences"

\* the score of dimension d, None when the preferences do not have its key
DimScore(animal, preferences, d) ==
    LET v == preferences[PrefKey(d)]
    IN  IF v = None THEN None
        ELSE Some(CASE d = "region" -> _calculate_region_score(animal, Val(v))
                    [] d = "age" -> _calculate_age_score(animal, Val(v))
                    [] d = "size" -> _calculate_size_score(animal, Val(v))
                    [] d = "personality" ->
                           _calculate_personality_score(animal, Val(v))
                    [] d = "behavior" ->
                           _calculate_behavior_score(animal, Val(v)))

DimScores(animal, preferences) ==
    [d \in {Dimensions[i] : i \in 1..Len(Dimensions)} |->
        DimScore(animal, preferences, d)]

\* (a variant whose default weight is 0)
WeightOfDefaultZero(preferences, d) == GetOr(preferences.weights[d], FZero)

\* weights.get(d, 1)
WeightOf(preferences, d) == GetOr(preferences.weights[d], FOne)

\* one dimension block: `if key in preferences:` total_score += score *
\* weight; total_weight += weight
AddDim(prev, s, w) ==
    IF s = None THEN prev
    ELSE [score |-> FAdd(prev.score, FMul(Val(s), w)),
          weight |-> FAdd(prev.weight, w)]

\* total_score and total_weight after the first i dimension blocks
RECURSIVE Totals(_, _, _)
Totals(animal, preferences, i) ==
    IF i = 0 THEN [score |-> FZero, weight |-> FZero]
    ELSE CHOOSE out \in
             {AddDim(prev, s, WeightOf(preferences, Dimensions[i])) :
                 prev \in {Totals(animal, preferences, i - 1)},
                 s \in {DimScore(animal, preferences, Dimensions[i])}} : TRUE

\* (a variant that returns the weighted sum undivided)
RatioUndivided(t) == t.score

\* total_score / total_weight if total_weight > 0 else 0
Ratio(t) == IF FLt(FZero, t.weight) THEN FDiv(t.score, t.weight) ELSE FZero

_calculate_match_score(animal, preferences) ==
    CHOOSE out \in {Ratio(t) : t \in {Totals(animal, preferences, Len(Dimensions))}} :
        TRUE

\* (a variant without the .copy(): the new column lands in the held frame)
HeldAfterScoringNoCopy(held, scored) ==
    [cols |-> "scored",
     rows |-> [i \in 1..Len(held.rows) |->
                 IF \E k \in 1..Len(scored.rows) : scored.rows[k].idx = held.rows[i].idx
                 THEN CHOOSE x \in {scored.rows[k] : k \in 1..Len(scored.rows)} :
                         x.idx = held.rows[i].idx
                 ELSE held.rows[i]]]

\* self.animals after `available_animals['match_score'] = match_scores`:
\* available_animals is a .copy(), so the held frame is as it was
HeldAfterScoring(held, scored) == held

\* available_animals['match_score'] = match_scores
WithScores(df, preferences) ==
    [cols |-> "scored",
     rows |-> [i \in 1..Len(df.rows) |->
                 [df.rows[i] EXCEPT !.match_score =
                     Some(_calculate_match_score(Rec(df.rows[i]), preferences))]]]

\* (a variant with a strict comparison)
MoreThan(df, threshold) ==
    Mask(df, {r \in Rows(df) : FLt(threshold, Val(r.match_score))})

\* available_animals[available_animals['match_score'] >= threshold]
AtLeast(df, threshold) ==
    Mask(df, {r \in Rows(df) : FLeq(threshold, Val(r.match_score))})

Descending(rows) ==
    \A i \in 1..(Len(rows) - 1) :
        FLeq(Val(rows[i + 1].match_score), Val(rows[i].match_score))

\* sort_values('match_score', ascending=False) with the default
\* kind='quicksort', which is not a stable sort: every arrangement of the
\* rows that is descending by match_score is a possible result.
sort_values(df) ==
    {[df EXCEPT !.rows = [i \in 1..Len(df.rows) |-> df.rows[p[i]]]] :
        p \in {q \in Permutations(1..Len(df.rows)) :
                  Descending([i \in 1..Len(df.rows) |-> df.rows[q[i]]])}}

(***************************************************************************)
(* The inputs of the calls.                                                *)
(***************************************************************************)
NoCriteria == [k \in CriteriaKeys |-> None]

HealthReqs(n, nomed, excl) ==
    [min_vaccinations |-> n, no_medical_history |-> nomed,
     exclude_conditions |-> excl]
CarePrefs(dur, pick, excl) ==
    [max_duration |-> dur, pickup_method |-> pick, exclude_conditions |-> excl]

\* the value each key takes in the criteria that combine two keys
Primary(key) ==
    CASE key = "region" -> ListArg(<<"Seoul">>)
      [] key = "gender" -> ListArg(<<"female">>)
      [] key = "care_type" -> StrArg("general")
      [] key = "age_range" -> Range(Some(1), Some(5))
      [] key = "weight_range" -> Range(Some(5), Some(15))
      [] key = "neutered" -> Some(FALSE)
      [] key = "hashtags" -> <<TagAegyo>>
      [] key = "suitable_homes" -> <<HomeApt>>
      [] key = "behavior_traits" -> ("affection" :> Req(Some(3), None, None))
      [] key = "health_requirements" -> HealthReqs(Some(2), None, None)
      [] key = "care_preferences" ->
             CarePrefs(None, Some(<<"jik", "jeop">>), None)

\* further values, used alone; the falsy ones leave the key inactive
Others(key) ==
    CASE key = "region" -> {StrArg("Busan"), ListArg(<<>>)}
      [] key = "age_range" ->
             {Range(Some(5), None), Range(None, None), Range(Some(3), Some(6)),
              Range(Some(5), Some(1)), NotADict}
      [] key = "weight_range" ->
             {Range(Some(8), Some(20)), Range(Some(15), Some(5))}
      [] key = "neutered" -> {Some(TRUE), None}
      [] key = "hashtags" -> {<<>>, <<TagSosimHan, TagSaramJoa>>}
      [] key = "behavior_traits" ->
             {("affection" :> Req(None, None, Some(4)))
                @@ ("barking" :> Req(None, Some(3), None))}
      [] key = "health_requirements" ->
             {HealthReqs(None, Some(TRUE), None),
              HealthReqs(None, None, Some(<<Worm>>))}
      [] key = "care_preferences" ->
             {CarePrefs(Some(3), None, None),
              CarePrefs(None, None, Some(<<(<<"PCR">>)>>))}
      [] OTHER -> {}

\* the keys that are combined two by two
PairKeys ==
    {"gender", "age_range", "hashtags", "suitable_homes", "care_preferences"}

CriteriaSet ==
    {NoCriteria}
    \cup {[NoCriteria EXCEPT ![k] = Some(Primary(k))] : k \in CriteriaKeys}
    \cup UNION {{[NoCriteria EXCEPT ![k] = Some(v)] : v \in Others(k)} :
                  k \in CriteriaKeys}
    \cup {[NoCriteria EXCEPT ![k[1]] = Some(Primary(k[1])),
                             ![k[2]] = Some(Primary(k[2]))] :
            k \in {kk \in PairKeys \X PairKeys : kk[1] # kk[2]}}

PrefKeys ==
    {"region", "age_preference", "size_preference", "personality_traits",
     "behavior_preferences"}

Tiers(p, a) == [preferred |-> p, acceptable |-> a]
BehaviorPref(ideal, acceptable) == [ideal |-> ideal, acceptable |-> acceptable]

NoWeights == [d \in {"region", "age", "size", "personality", "behavior"} |-> None]
SomeWeights ==
    [region |-> Some(FZero), age |-> Some(<<3, 2>>), size |-> None,
     personality |-> Some(FOne), behavior |-> Some(<<2, 1>>)]

PrimaryPref(key) ==
    CASE key = "region" -> <<"Seoul">>
      [] key = "age_preference" ->
             Tiers(Some(Range(Some(2), Some(4))), Some(Range(Some(1), Some(6))))
      [] key = "size_preference" ->
             Tiers(Some(Range(Some(5), Some(15))), Some(Range(None, Some(10))))
      [] key = "personality_traits" -> <<TagAegyo, TagSosim>>
      [] key = "behavior_preferences" ->
             ("affection" :> BehaviorPref(Some(5), {4}))
               @@ ("barking" :> BehaviorPref(Some(1), {}))

OtherPrefs(key) ==
    CASE key = "age_preference" -> {Tiers(Some(Range(Some(5), Some(10))), None)}
      [] key = "personality_traits" -> {<<>>, <<TagSosimHan>>}
      [] key = "behavior_preferences" ->
             {("affection" :> BehaviorPref(None, {})),
              ("affection" :> BehaviorPref(Some(4), {2}))}
      [] OTHER -> {}

NoPrefs == [k \in PrefKeys |-> None]

\* a preferences dict: the dimension keys and weights
WithWeights(dims, w) ==
    [region |-> dims.region, age_preference |-> dims.age_preference,
     size_preference |-> dims.size_preference,
     personality_traits |-> dims.personality_traits,
     behavior_preferences |-> dims.behavior_preferences, weights |-> w]

AllPrefs == [k \in PrefKeys |-> Some(PrimaryPref(k))]
RegionAndAge ==
    [NoPrefs EXCEPT !.region = Some(PrimaryPref("region")),
                    !.age_preference = Some(PrimaryPref("age_preference"))]

PrefDims ==
    {NoPrefs, AllPrefs, RegionAndAge}
    \cup {[NoPrefs EXCEPT ![k] = Some(PrimaryPref(k))] : k \in PrefKeys}
    \cup UNION {{[NoPrefs EXCEPT ![k] = Some(v)] : v \in OtherPrefs(k)} :
                  k \in PrefKeys}

\* the dimensions that are also scored with explicit weights
WeightedDims ==
    {AllPrefs, RegionAndAge,
     [NoPrefs EXCEPT !.region = Some(PrimaryPref("region"))],
     [NoPrefs EXCEPT !.age_preference = Some(PrimaryPref("age_preference"))],
     [NoPrefs EXCEPT !.behavior_preferences =
                         Some(PrimaryPref("behavior_preferences"))]}

DefaultThreshold == <<3, 10>>       \* threshold: float = 0.3
HighThreshold == <<7, 10>>

\* the (preferences, threshold) arguments of apply_soft_filtering
SoftArgs ==
    {<<WithWeights(d, NoWeights), DefaultThreshold>> : d \in PrefDims}
    \cup {<<WithWeights(d, SomeWeights), HighThreshold>> : d \in WeightedDims}
    \cup {<<WithWeights(d, NoWeights), HighThreshold>> :
            d \in {AllPrefs,
                   [NoPrefs EXCEPT !.age_preference =
                                       Some(PrimaryPref("age_preference"))]}}

(***************************************************************************)
(* The state machine.                                                      *)
(***************************************************************************)
NoCall == [op |-> "none", on |-> "data", criteria |-> NoCriteria,
           preferences |-> WithWeights(NoPrefs, NoWeights), threshold |-> FZero]

\* batch_processing_mode has not been entered
NoBatch ==
    [pc |-> "idle", user_profiles |-> <<>>, i |-> 0, hard_results |-> <<>>,
     results_summary |-> <<>>]

\* main.py initialize_system: load_and_process, then set_animals; the
\* engine was constructed with filtered_results = pd.DataFrame()
Init ==
    /\ processed_data \in {NewFrame(recs) : recs \in RecordSeqs}
    /\ animals = processed_data
    /\ filtered_results = EmptyFrame
    /\ call = NoCall
    /\ ret = EmptyFrame
    /\ raised = "none"
    /\ match_scores = <<>>
    /\ loaded = "data"
    /\ batch = NoBatch

\* set_animals(self.processed_data)
SetAnimalsData ==
    /\ animals' = processed_data
    /\ loaded' = "data"
    /\ UNCHANGED <<processed_data, filtered_results, call, ret, raised, match_scores, batch>>

\* set_animals(hard_results): the frame the last apply_filters returned
SetAnimalsResult ==
    /\ call.op = "apply_filters"
    /\ raised = "none"
    /\ animals' = ret
    /\ loaded' = "result"
    /\ UNCHANGED <<processed_data, filtered_results, call, ret, raised, match_scores, batch>>

ApplyFilters(filter_criteria) ==
    \E out \in {apply_filters(animals, filter_criteria)} :
        /\ call' = [NoCall EXCEPT !.op = "apply_filters", !.on = loaded,
                                  !.criteria = filter_criteria]
        /\ ret' = out
        /\ raised' = IF IsErr(out) THEN out.cols ELSE "none"
        /\ filtered_results' =
               IF IsEmpty(animals) \/ IsErr(out) THEN filtered_results ELSE out
        /\ match_scores' = <<>>
        /\ UNCHANGED <<processed_data, animals, loaded, batch>>

ApplySoftFiltering(preferences, threshold) ==
    \E available_animals \in {StatusGate(animals)} :
        /\ call' = [NoCall EXCEPT !.op = "apply_soft_filtering", !.on = loaded,
                                  !.preferences = preferences,
                                  !.threshold = threshold]
        /\ UNCHANGED <<processed_data, loaded, batch>>
        /\ IF available_animals = KeyErr
           THEN /\ ret' = KeyErr
                /\ raised' = "KeyError"
                /\ match_scores' = <<>>
                /\ UNCHANGED <<animals, filtered_results>>
           ELSE IF IsEmpty(available_animals)
           THEN /\ ret' = EmptyFrame
                /\ raised' = "none"
                /\ match_scores' = <<>>
                /\ UNCHANGED <<animals, filtered_results>>
           ELSE /\ \E scored \in {WithScores(available_animals, preferences)} :
                   /\ animals' = HeldAfterScoring(animals, scored)
                   /\ match_scores' =
                         [i \in 1..Len(scored.rows) |->
                             [idx |-> scored.rows[i].idx, a |-> scored.rows[i].a,
                              dims |-> DimScores(Rec(scored.rows[i]), preferences),
                              score |-> Val(scored.rows[i].match_score)]]
                   /\ \E filtered_animals \in {AtLeast(scored, threshold)} :
                      \E sorted \in sort_values(filtered_animals) :
                         /\ filtered_results' = sorted
                         /\ ret' = sorted
                /\ raised' = "none"

Next ==
    \/ SetAnimalsData
    \/ SetAnimalsResult
    \/ \E c \in CriteriaSet : ApplyFilters(c)
    \/ \E x \in SoftArgs : ApplySoftFiltering(x[1], x[2])

Spec == Init /\ [][Next]_vars

(***************************************************************************)
(* Batch mode: AnimalRecommendationSystem.batch_processing_mode.  main()   *)
(* enters either the interactive mode or the batch mode on the system it   *)
(* constructed; the batch mode is one loop over the profiles of the file,  *)
(* one step per profile, inside one try block.                             *)
(***************************************************************************)
MaxProfiles == 2

\* one apply_filters call on the held frame: what it returns or raises and
\* what it leaves in filtered_results
HardCall(held, held_results, filter_criteria) ==
    LET out == apply_filters(held, filter_criteria)
    IN  [ret |-> out,
         raised |-> IF IsErr(out) THEN out.cols ELSE "none",
         filtered_results |->
             IF IsEmpty(held) \/ IsErr(out) THEN held_results ELSE out]

\* one apply_soft_filtering call on the held frame: the possible outcomes
SoftCalls(held, held_results, preferences, threshold) ==
    LET available_animals == StatusGate(held)
        scored == WithScores(available_animals, preferences)
    IN  IF available_animals = KeyErr
        THEN {[ret |-> KeyErr, raised |-> "KeyError", animals |-> held,
               filtered_results |-> held_results, match_scores |-> <<>>]}
        ELSE IF IsEmpty(available_animals)
        THEN {[ret |-> EmptyFrame, raised |-> "none", animals |-> held,
               filtered_results |-> held_results, match_scores |-> <<>>]}
        ELSE {[ret |-> sorted, raised |-> "none",
               animals |-> HeldAfterScoring(held, scored),
               filtered_results |-> sorted,
               match_scores |->
                   [i \in 1..Len(scored.rows) |->
                       [idx |-> scored.rows[i].idx, a |-> scored.rows[i].a,
                        dims |-> DimScores(Rec(scored.rows[i]), preferences),
                        score |-> Val(scored.rows[i].match_score)]]] :
                 sorted \in sort_values(AtLeast(scored, threshold))}

\* a profile of the file: hard_filters and preferences, each None when the
\* profile does not have the key
Profile(hard_filters, preferences) ==
    [hard_filters |-> hard_filters, preferences |-> preferences]

Profiles ==
    {Profile(Some([NoCriteria EXCEPT !.gender = Some(Primary("gender"))]),
             Some(WithWeights(RegionAndAge, NoWeights))),
     Profile(Some([NoCriteria EXCEPT !.age_range = Some(Primary("age_range"))]),
             Some(WithWeights(AllPrefs, SomeWeights))),
     Profile(None,
             Some(WithWeights([NoPrefs EXCEPT !.age_preference =
                                   Some(PrimaryPref("age_preference"))],
                              NoWeights))),
     Profile(Some([NoCriteria EXCEPT !.region = Some(Primary("region"))]),
             None)}

ProfileLists == UNION {[1..n -> Profiles] : n \in 1..MaxProfiles}

\* recommendations.head(5)
Head5(rows) == SubSeq(rows, 1, IF Len(rows) < 5 THEN Len(rows) ELSE 5)

\* user_profiles = json.load(f); results_summary = []
BatchStart(user_profiles) ==
    /\ batch.pc = "idle"
    /\ batch' = [NoBatch EXCEPT !.pc = "running",
                                !.user_profiles = user_profiles, !.i = 1]
    /\ UNCHANGED <<processed_data, animals, filtered_results, call, ret,
                   raised, match_scores, loaded>>

\* the hard step of one profile: apply_filters on what the engine holds,
\* or the status mask on processed_data
BatchHard(profile) ==
    IF profile.hard_filters # None
    THEN HardCall(animals, filtered_results, Val(profile.hard_filters))
    ELSE LET df == StatusGate(processed_data)
         IN  [ret |-> df, raised |-> IF IsErr(df) THEN df.cols ELSE "none",
              filtered_results |-> filtered_results]

\* the position after profile i (the summary is written after the last)
BatchAdvance(b) ==
    [b EXCEPT !.i = b.i + 1,
              !.pc = IF b.i = Len(b.user_profiles) THEN "done" ELSE "running"]

\* one iteration of the loop; an exception leaves the loop for the except
\* clause of the method
BatchProfile ==
    /\ batch.pc = "running"
    /\ UNCHANGED processed_data
    /\ LET profile == batch.user_profiles[batch.i]
           hard == BatchHard(profile)
           hard_call ==
               IF profile.hard_filters # None
               THEN [NoCall EXCEPT !.op = "apply_filters", !.on = loaded,
                                   !.criteria = Val(profile.hard_filters)]
               ELSE call
       IN  IF hard.raised # "none"
           THEN /\ batch' = [batch EXCEPT !.pc = "failed"]
                /\ call' = hard_call
                /\ ret' = hard.ret
                /\ raised' = hard.raised
                /\ match_scores' = <<>>
                /\ UNCHANGED <<animals, filtered_results, loaded>>
           ELSE IF profile.preferences = None
           THEN /\ batch' = BatchAdvance(
                       [batch EXCEPT !.hard_results = Append(@, hard.ret)])
                /\ call' = hard_call
                /\ ret' = hard.ret
                /\ raised' = "none"
                /\ match_scores' = <<>>
                /\ filtered_results' = hard.filtered_results
                /\ UNCHANGED <<animals, loaded>>
           ELSE \E soft \in SoftCalls(hard.ret, hard.filtered_results,
                                      Val(profile.preferences),
                                      DefaultThreshold) :
                /\ loaded' = "result"
                /\ call' = [NoCall EXCEPT !.op = "apply_soft_filtering",
                                          !.on = "result",
                                          !.preferences = Val(profile.preferences),
                                          !.threshold = DefaultThreshold]
                /\ ret' = soft.ret
                /\ raised' = soft.raised
                /\ match_scores' = soft.match_scores
                /\ animals' = soft.animals
                /\ filtered_results' = soft.filtered_results
                /\ batch' =
                      IF soft.raised # "none"
                      THEN [batch EXCEPT !.pc = "failed",
                                         !.hard_results = Append(@, hard.ret)]
                      ELSE BatchAdvance(
                              [batch EXCEPT
                                  !.hard_results = Append(@, hard.ret),
                                  !.results_summary =
                                      Append(@,
                                          [user |-> batch.i,
                                           hard_filter_count |-> Len(hard.ret.rows),
                                           recommendation_count |-> Len(soft.ret.rows),
                                           top_recommendations |->
                                               Head5(soft.ret.rows)])])

BatchNext ==
    \/ \E user_profiles \in ProfileLists : BatchStart(user_profiles)
    \/ BatchProfile

BatchSpec == Init /\ [][BatchNext]_vars

(***************************************************************************)
(* The engine on its own: an AnimalFilter constructed without data, and    *)
(* its public methods called in any order with any collection.             *)
(***************************************************************************)
\* the collections a caller hands to set_animals
EnginePool == {"Dog1", "Dog3", "Dog4"}

EngineFrames ==
    {NewFrame(recs) :
        recs \in UNION {[1..n -> EnginePool] : n \in 0..MaxRecords}}

EngineCriteria ==
    {NoCriteria, [NoCriteria EXCEPT !.gender = Some(Primary("gender"))]}

EngineSoftArgs == {<<WithWeights(RegionAndAge, NoWeights), DefaultThreshold>>}

\* AnimalFilter.__init__: animals and filtered_results are pd.DataFrame()
EngineInit ==
    /\ processed_data = EmptyFrame
    /\ animals = EmptyFrame
    /\ filtered_results = EmptyFrame
    /\ call = NoCall
    /\ ret = EmptyFrame
    /\ raised = "none"
    /\ match_scores = <<>>
    /\ loaded = "none"
    /\ batch = NoBatch

\* set_animals(animals): self.animals = animals.copy()
SetAnimals(animals_df) ==
    /\ animals' = animals_df
    /\ loaded' = "frame"
    /\ UNCHANGED <<processed_data, filtered_results, call, ret, raised,
                   match_scores, batch>>

\* get_results(): return self.filtered_results
get_results == filtered_results

EngineNext ==
    \/ \E animals_df \in EngineFrames : SetAnimals(animals_df)
    \/ SetAnimalsResult
    \/ \E c \in EngineCriteria : ApplyFilters(c)
    \/ \E x \in EngineSoftArgs : ApplySoftFiltering(x[1], x[2])

EngineSpec == EngineInit /\ [][EngineNext]_vars

(***************************************************************************)
(* Properties.  A step is a call of apply_filters (apply_soft_filtering)   *)
(* when it leaves that operation in `call` and changes what a call         *)
(* writes; set_animals changes none of these, and a call that changes      *)
(* nothing at all is a stuttering step.  In such a step the unprimed       *)
(* `animals` is the collection the call ran on.                            *)
(***************************************************************************)
CallVars == <<call, ret, raised, filtered_results, match_scores>>

HardRan == call'.op = "apply_filters" /\ CallVars' # CallVars
SoftRan == call'.op = "apply_soft_filtering" /\ CallVars' # CallVars

RowSet(rows) == {rows[i] : i \in 1..Len(rows)}

\* s is t with some rows left out
IsSubSeq(s, t) ==
    LET In(r) == r \in RowSet(s)
    IN  s = SelectSeq(t, In)

IsAvailable(r) == Rec(r).status = AVAILABLE

\* the specification's "non-empty criterion field present in C"
NonEmptyField(c, key) ==
    /\ c[key] # None
    /\ CASE key \in {"region", "gender", "care_type"} ->
                IF Val(c[key]).isstr THEN Val(c[key]).s # ""
                ELSE Len(Val(c[key]).v) > 0
         [] key \in {"age_range", "weight_range"} ->
                /\ Val(c[key]).isdict
                /\ Val(c[key]).min # None \/ Val(c[key]).max # None
         [] key = "neutered" -> Val(c[key]) \in {Some(TRUE), Some(FALSE)}
         [] key \in {"hashtags", "suitable_homes"} -> Len(Val(c[key])) > 0
         [] key = "behavior_traits" -> DOMAIN Val(c[key]) # {}
         [] OTHER -> \E k \in DOMAIN Val(c[key]) : Val(c[key])[k] # None

NonEmptyFields(c) == {key \in CriteriaKeys : NonEmptyField(c, key)}

\* the predicate of criterion field key with value v, on one record
Passes(animal, key, v) ==
    CASE key = "region" -> in_region(animal, v)
      [] key = "gender" -> in_genders(animal, v)
      [] key = "care_type" -> in_care_types(animal, v)
      [] key = "age_range" ->
             in_range(animal.age, GetOr(v.min, 0), GetOr(v.max, 100))
      [] key = "weight_range" ->
             in_range(animal.weight, GetOr(v.min, 0), GetOr(v.max, 100))
      [] key = "neutered" -> neutered_is(animal, Val(v))
      [] key = "hashtags" -> has_matching_hashtag(animal.hashtags, v)
      [] key = "suitable_homes" -> matches_home_type(animal.care_conditions, v)
      [] key = "behavior_traits" ->
             meets_behavior_requirements(animal.behavior_traits, v)
      [] key = "health_requirements" ->
             meets_health_requirements(animal.health_info, v)
      [] key = "care_preferences" ->
             meets_care_preferences(animal.care_conditions, v)

PassesAll(r, c) ==
    /\ IsAvailable(r)
    /\ \A key \in NonEmptyFields(c) : Passes(Rec(r), key, Val(c[key]))

\* the last call was apply_filters on the loaded data and it returned
HardReturnedOnData ==
    /\ call.op = "apply_filters"
    /\ raised = "none"
    /\ call.on = "data"
    /\ loaded = "data"

\* C1: idempotence of hard filtering.  When the result of apply_filters(C)
\* has been loaded back with set_animals, calling apply_filters(C) again
\* returns the same records in the same order as the first call.
C1_Idempotence ==
    [][(/\ call.op = "apply_filters"
        /\ raised = "none"
        /\ loaded = "result"
        /\ animals = ret
        /\ HardRan
        /\ call'.criteria = call.criteria)
       => (raised' = "none" /\ ret'.rows = ret.rows)]_vars

C1_Witness ==
    /\ call.op = "apply_filters"
    /\ call.on = "result"
    /\ raised = "none"
    /\ loaded = "result"
    /\ NonEmptyFields(call.criteria) # {}
    /\ Len(ret.rows) > 0
    /\ ret.rows = animals.rows
    /\ animals.rows # processed_data.rows
    /\ animals = apply_filters(processed_data, call.criteria)

\* C2: monotonicity of hard filtering.  Whenever apply_filters returns
\* for criteria that have a non-empty field f, it also returns for the
\* same criteria without f, and every record of the result with f is in
\* the result without f (in the same order): adding f never adds a record.
C2_Monotone ==
    [][(HardRan /\ raised' = "none")
       => \A f \in NonEmptyFields(call'.criteria) :
              \E without \in {apply_filters(animals,
                                 [call'.criteria EXCEPT ![f] = None])} :
                  /\ ~IsErr(without)
                  /\ IsSubSeq(ret'.rows, without.rows)]_vars

C2_Witness ==
    /\ HardReturnedOnData
    /\ Cardinality(NonEmptyFields(call.criteria)) = 2
    /\ Len(ret.rows) > 0
    /\ \E f \in NonEmptyFields(call.criteria) :
          Len(apply_filters(animals, [call.criteria EXCEPT ![f] = None]).rows)
              > Len(ret.rows)

\* C3: status gate.  Every record apply_filters returns has the available
\* status, whatever the criteria; with criteria that have no non-empty
\* field the result is exactly the available records of the held
\* collection, in their order.
C3_StatusGate ==
    [][(HardRan /\ raised' = "none")
       => /\ \A r \in RowSet(ret'.rows) : IsAvailable(r)
          /\ (NonEmptyFields(call'.criteria) = {}
                 => ret'.rows = SelectSeq(animals.rows, IsAvailable))]_vars

C3_Witness ==
    /\ HardReturnedOnData
    /\ call.criteria # NoCriteria
    /\ NonEmptyFields(call.criteria) = {}
    /\ Len(ret.rows) > 0
    /\ Len(ret.rows) < Len(animals.rows)
    /\ ret.rows = SelectSeq(animals.rows, IsAvailable)

SoftReturned == call.op = "apply_soft_filtering" /\ raised = "none"

InUnit(x) == FLeq(FZero, x) /\ FLeq(x, FOne)

\* C5: score bounds.  Every match score that _calculate_match_score
\* computed in the last apply_soft_filtering call, and every match_score
\* in the result of the call, is at least 0 and at most 1 (the behavior
\* trait values of the records are absent or in 1..5, the weights are not
\* negative).
C5_ScoreBounds ==
    /\ \A i \in DOMAIN match_scores : InUnit(match_scores[i].score)
    /\ SoftReturned =>
          \A r \in RowSet(ret.rows) : InUnit(Val(r.match_score))

C5_Witness ==
    /\ SoftReturned
    /\ call.preferences.weights = SomeWeights
    /\ call.preferences.behavior_preferences # None
    /\ Len(ret.rows) > 0
    /\ \E i \in DOMAIN match_scores :
          /\ FLt(FZero, match_scores[i].score)
          /\ FLt(match_scores[i].score, FOne)

\* C6: threshold filter and ranking.  What apply_soft_filtering(P, t)
\* returns has no row with match_score < t, has a row for every available
\* record of the held collection whose score is >= t, and match_score
\* never increases from one row to the next.
C6_ThresholdAndRanking ==
    [][(SoftRan /\ raised' = "none")
       => /\ \A r \in RowSet(ret'.rows) :
                FLeq(call'.threshold, Val(r.match_score))
          /\ \A r \in RowSet(animals.rows) :
                (/\ IsAvailable(r)
                 /\ FLeq(call'.threshold,
                         _calculate_match_score(Rec(r), call'.preferences)))
                => \E x \in RowSet(ret'.rows) : x.idx = r.idx /\ x.a = r.a
          /\ Descending(ret'.rows)]_vars

C6_Witness ==
    /\ SoftReturned
    /\ Len(ret.rows) = 2
    /\ ret.rows[1].idx > ret.rows[2].idx
    /\ FLt(Val(ret.rows[2].match_score), Val(ret.rows[1].match_score))
    /\ Val(ret.rows[2].match_score) = call.threshold

\* C7: stable tie-break.  Two rows of an apply_soft_filtering result with
\* equal match_score are in the order of their positions in the input
\* (idx is the row's position in the loaded data).
C7_StableTieBreak ==
    SoftReturned =>
        \A i, j \in 1..Len(ret.rows) :
            (i < j /\ ret.rows[i].match_score = ret.rows[j].match_score)
                => ret.rows[i].idx < ret.rows[j].idx

\* C8: neutral default for unknown age.  In every score computed with an
\* age preference in the profile, a record whose age is unknown has the
\* age dimension score 1/2.
C8_UnknownAge ==
    \A i \in DOMAIN match_scores :
        (/\ call.preferences.age_preference # None
         /\ Fields(match_scores[i].a).age = None)
            => match_scores[i].dims.age = Some(FHalf)

C8_Witness ==
    /\ SoftReturned
    /\ call.preferences.age_preference
           = Some(Tiers(Some(Range(Some(5), Some(10))), None))
    /\ \E i \in DOMAIN match_scores :
          /\ Fields(match_scores[i].a).age = None
          /\ match_scores[i].dims.age = Some(FHalf)

\* the sum over the first i dimensions that have a score of weight times
\* score, and of the weights; a dimension without an entry in weights has
\* weight 1
RECURSIVE WeightedSum(_, _, _)
WeightedSum(dims, weights, i) ==
    IF i = 0 THEN FZero
    ELSE IF dims[Dimensions[i]] = None THEN WeightedSum(dims, weights, i - 1)
    ELSE FAdd(WeightedSum(dims, weights, i - 1),
              FMul(IF weights[Dimensions[i]] = None THEN FOne
                   ELSE Val(weights[Dimensions[i]]),
                   Val(dims[Dimensions[i]])))

RECURSIVE WeightSum(_, _, _)
WeightSum(dims, weights, i) ==
    IF i = 0 THEN FZero
    ELSE IF dims[Dimensions[i]] = None THEN WeightSum(dims, weights, i - 1)
    ELSE FAdd(WeightSum(dims, weights, i - 1),
              IF weights[Dimensions[i]] = None THEN FOne
              ELSE Val(weights[Dimensions[i]]))

WeightedAverage(dims, weights) ==
    LET n == Len(Dimensions)
    IN  IF FLt(FZero, WeightSum(dims, weights, n))
        THEN FDiv(WeightedSum(dims, weights, n), WeightSum(dims, weights, n))
        ELSE FZero

C10_InputsNotMutated ==
    [][(HardRan \/ SoftRan)
       => /\ animals' = animals
          /\ processed_data' = processed_data
          /\ animals'.cols # "scored"
          /\ \A r \in RowSet(animals'.rows) : r.match_score = None]_vars

C10_Witness ==
    /\ SoftReturned
    /\ ret.cols = "scored"
    /\ Len(ret.rows) > 0
    /\ filtered_results = ret
    /\ loaded = "data"
    /\ animals = processed_data
    /\ animals.cols = "base"
    /\ \A r \in RowSet(animals.rows) : r.match_score = None

\* the last call ran on the loaded data, which is still held
CalledOnData == call.op # "none" /\ call.on = "data" /\ loaded = "data"

\* C11: fail-fast on a contract violation.  A call of apply_filters or
\* apply_soft_filtering on a collection that has a record without status
\* ends in an error, not in a normal result.
C11_FailFastOnMissingStatus ==
    (/\ CalledOnData
     /\ \E r \in Rows(animals) : Rec(r).status = StatusNaN)
        => raised # "none"

\* a range whose min is greater than its max
Inverted(v) ==
    /\ v.isdict
    /\ v.min # None
    /\ v.max # None
    /\ Val(v.min) > Val(v.max)

\* C12: inverted ranges are rejected eagerly.  A call of apply_filters with
\* an age_range or weight_range whose min is greater than its max ends in
\* an error.
C12_InvertedRangeRejected ==
    (/\ call.op = "apply_filters"
     /\ CalledOnData
     /\ Len(animals.rows) > 0
     /\ \E key \in {"age_range", "weight_range"} :
           /\ call.criteria[key] # None
           /\ Inverted(Val(call.criteria[key])))
        => raised # "none"

\* a nested field of the criteria that is not the structured value it
\* should be
MalformedField(c) ==
    \E key \in {"age_range", "weight_range"} :
        c[key] # None /\ ~Val(c[key]).isdict

\* a record whose care_conditions, health_info or behavior_traits is not a
\* structured value
LacksSubObject(animal) ==
    \/ animal.care_conditions = None
    \/ animal.health_info = None
    \/ animal.behavior_traits = None

\* C13: malformed or absent nested structures never raise.  A call of
\* apply_filters on a collection that has a record without one of its
\* nested structures, or with criteria that have a malformed nested field,
\* completes without an error.
C13_NeverRaises ==
    (/\ call.op = "apply_filters"
     /\ CalledOnData
     /\ \/ MalformedField(call.criteria)
        \/ \E r \in Rows(animals) : LacksSubObject(Rec(r)))
        => raised = "none"

\* the last call was apply_filters and it returned
HardReturned == call.op = "apply_filters" /\ raised = "none"

\* the number of vaccination records of a record (0 when it has none)
VaccinationCount(animal) ==
    IF animal.health_info = None THEN 0
    ELSE IF Val(animal.health_info).vaccination = None THEN 0
    ELSE Len(Val(Val(animal.health_info).vaccination))

\* C14: health requirement min_vaccinations.  Every record that
\* apply_filters returns for criteria with health_requirements
\* min_vaccinations = n (n >= 1) has at least n vaccination records; a
\* record with none is rejected.
C14_MinVaccinations ==
    (/\ HardReturned
     /\ call.criteria.health_requirements # None
     /\ Val(call.criteria.health_requirements).min_vaccinations # None
     /\ Val(Val(call.criteria.health_requirements).min_vaccinations) >= 1)
        => \A r \in Rows(ret) :
               VaccinationCount(Rec(r))
                   >= Val(Val(call.criteria.health_requirements).min_vaccinations)

\* the pickup text of a record ("" when care_conditions is absent)
PickupText(animal) ==
    IF animal.care_conditions = None THEN <<>>
    ELSE Val(animal.care_conditions).pickup

\* C15: care preference pickup_method.  Every record that apply_filters
\* returns for criteria with care_preferences pickup_method = m has m as
\* a substring of its pickup text; a record whose pickup text is empty or
\* absent is rejected.
C15_PickupMethod ==
    (/\ HardReturned
     /\ call.criteria.care_preferences # None
     /\ Val(call.criteria.care_preferences).pickup_method # None)
        => \A r \in Rows(ret) :
               /\ Len(PickupText(Rec(r))) > 0
               /\ IsSubstr(Val(Val(call.criteria.care_preferences).pickup_method),
                           PickupText(Rec(r)))

\* the nested structure of a record that the predicate of a criterion
\* field reads
SubObject(animal, key) ==
    CASE key \in {"region", "suitable_homes", "care_preferences"} ->
             animal.care_conditions
      [] key = "health_requirements" -> animal.health_info
      [] key = "behavior_traits" -> animal.behavior_traits

SubObjectKeys ==
    {"region", "suitable_homes", "care_preferences", "health_requirements",
     "behavior_traits"}

\* C16 as stated: whenever one of the criteria that read a nested
\* structure (region included) is active, no record that lacks that
\* structure is in the result of apply_filters.
C16_AsStated ==
    HardReturned =>
        \A key \in SubObjectKeys \cap NonEmptyFields(call.criteria) :
            \A r \in Rows(ret) : SubObject(Rec(r), key) # None

\* C16: missing sub-object policy.  Whenever suitable_homes,
\* care_preferences, health_requirements or behavior_traits is active, no
\* record that lacks the nested structure the criterion reads is in the
\* result of apply_filters; when region is active, a record without
\* care_conditions is in the result only if its rescue_location is one of
\* the requested regions.
C16_MissingSubObject ==
    HardReturned =>
        /\ \A key \in (SubObjectKeys \ {"region"})
                          \cap NonEmptyFields(call.criteria) :
               \A r \in Rows(ret) : SubObject(Rec(r), key) # None
        /\ "region" \in NonEmptyFields(call.criteria) =>
               \A r \in Rows(ret) :
                   Rec(r).care_conditions = None =>
                       InList(Rec(r).rescue_location,
                              AsList(Val(call.criteria.region)))

C16_Witness ==
    /\ HardReturned
    /\ CalledOnData
    /\ (SubObjectKeys \ {"region"}) \cap NonEmptyFields(call.criteria) # {}
    /\ Len(ret.rows) > 0
    /\ \E r \in Rows(animals) :
          /\ IsAvailable(r)
          /\ LacksSubObject(Rec(r))
          /\ r \notin Rows(ret)

\* the requested values of a region criterion (a string or a list)
Requested(x) == IF x.isstr THEN {x.s} ELSE {x.v[i] : i \in 1..Len(x.v)}

IsNationwide(animal) ==
    /\ animal.care_conditions # None
    /\ Val(animal.care_conditions).region = NATIONWIDE

\* C17: region predicate with the nationwide sentinel.  Whenever region is
\* a non-empty field of the criteria, every record apply_filters returns
\* has its rescue_location among the requested regions or is nationwide;
\* when region is the only non-empty field, the result is exactly the
\* available records with one of these two properties, in the held order.
C17_RegionPredicate ==
    [][(/\ HardRan
        /\ raised' = "none"
        /\ "region" \in NonEmptyFields(call'.criteria))
       => LET regions == Requested(Val(call'.criteria.region))
              Kept(r) == /\ IsAvailable(r)
                         /\ \/ Rec(r).rescue_location \in regions
                            \/ IsNationwide(Rec(r))
          IN  /\ \A r \in Rows(ret') : Kept(r)
              /\ NonEmptyFields(call'.criteria) = {"region"}
                    => ret'.rows = SelectSeq(animals.rows, Kept)]_vars

C17_Witness ==
    /\ HardReturned
    /\ CalledOnData
    /\ NonEmptyFields(call.criteria) = {"region"}
    /\ \E r \in Rows(ret) :
          /\ IsNationwide(Rec(r))
          /\ Rec(r).rescue_location \notin Requested(Val(call.criteria.region))
    /\ \E r \in Rows(animals) : IsAvailable(r) /\ r \notin Rows(ret)

\* the column a range criterion compares
RangeValue(animal, key) ==
    IF key = "age_range" THEN animal.age ELSE animal.weight

\* C18: age and weight range predicates.  Whenever age_range (weight_range)
\* is a non-empty field, no record of unknown age (weight) is in the result
\* of apply_filters; when it is the only non-empty field and has both
\* bounds, the result is exactly the available records whose value is
\* known and min <= value <= max, in the held order.
C18_RangePredicates ==
    [][(HardRan /\ raised' = "none")
       => \A key \in {"age_range", "weight_range"}
                        \cap NonEmptyFields(call'.criteria) :
              LET range == Val(call'.criteria[key])
                  Kept(r) == /\ IsAvailable(r)
                             /\ RangeValue(Rec(r), key) # None
                             /\ Val(range.min) <= Val(RangeValue(Rec(r), key))
                             /\ Val(RangeValue(Rec(r), key)) <= Val(range.max)
              IN  /\ \A r \in Rows(ret') : RangeValue(Rec(r), key) # None
                  /\ (/\ NonEmptyFields(call'.criteria) = {key}
                      /\ range.min # None
                      /\ range.max # None)
                        => ret'.rows = SelectSeq(animals.rows, Kept)]_vars

C18_Witness ==
    /\ HardReturned
    /\ CalledOnData
    /\ \E key \in {"age_range", "weight_range"} :
          /\ NonEmptyFields(call.criteria) = {key}
          /\ Val(call.criteria[key]).min # None
          /\ Val(call.criteria[key]).max # None
          /\ \E r \in Rows(ret) :
                RangeValue(Rec(r), key) = Val(call.criteria[key]).max
          /\ \E r \in Rows(animals) :
                /\ IsAvailable(r)
                /\ RangeValue(Rec(r), key) = None
                /\ r \notin Rows(ret)

\* C19: neutered predicate.  A neutered criterion of TRUE or of FALSE is a
\* constraint: every record apply_filters returns has that neutered value,
\* and when neutered is the only non-empty field the result is exactly the
\* available records whose neutered value is known and equal to it, in
\* the held order.
C19_NeuteredPredicate ==
    [][(/\ HardRan
        /\ raised' = "none"
        /\ call'.criteria.neutered # None
        /\ Val(call'.criteria.neutered) # None)
       => LET wanted == Val(Val(call'.criteria.neutered))
              Kept(r) == /\ IsAvailable(r)
                         /\ Rec(r).neutered # None
                         /\ Val(Rec(r).neutered) = wanted
          IN  /\ \A r \in Rows(ret') : Kept(r)
              /\ NonEmptyFields(call'.criteria) = {"neutered"}
                    => ret'.rows = SelectSeq(animals.rows, Kept)]_vars

C19_Witness ==
    /\ HardReturned
    /\ CalledOnData
    /\ call.criteria.neutered = Some(Some(FALSE))
    /\ NonEmptyFields(call.criteria) = {"neutered"}
    /\ Len(ret.rows) > 0
    /\ \E r \in Rows(animals) :
          IsAvailable(r) /\ Rec(r).neutered = None /\ r \notin Rows(ret)

\* some requested tag and some hashtag of the record contain one another
TagsOverlap(requested, hashtags) ==
    \E i \in 1..Len(requested) : \E j \in 1..Len(hashtags) :
        \/ IsSubstr(requested[i], hashtags[j])
        \/ IsSubstr(hashtags[j], requested[i])

\* C20: hashtag predicate.  Whenever hashtags is a non-empty field, every
\* record apply_filters returns has a hashtag that contains, or is
\* contained in, one of the requested tags; when hashtags is the only
\* non-empty field the result is exactly the available records with such
\* a hashtag (so no record without hashtags), in the held order.
C20_HashtagPredicate ==
    [][(/\ HardRan
        /\ raised' = "none"
        /\ "hashtags" \in NonEmptyFields(call'.criteria))
       => LET Kept(r) == /\ IsAvailable(r)
                         /\ TagsOverlap(Val(call'.criteria.hashtags),
                                        Rec(r).hashtags)
          IN  /\ \A r \in Rows(ret') : Kept(r)
              /\ NonEmptyFields(call'.criteria) = {"hashtags"}
                    => ret'.rows = SelectSeq(animals.rows, Kept)]_vars

C20_Witness ==
    /\ HardReturned
    /\ CalledOnData
    /\ NonEmptyFields(call.criteria) = {"hashtags"}
    /\ \E r \in Rows(ret) :
          \A i \in 1..Len(Val(call.criteria.hashtags)) :
              \A j \in 1..Len(Rec(r).hashtags) :
                  ~IsSubstr(Val(call.criteria.hashtags)[i], Rec(r).hashtags[j])
    /\ \E r \in Rows(animals) :
          IsAvailable(r) /\ Len(Rec(r).hashtags) = 0 /\ r \notin Rows(ret)

\* the value a record has for a behaviour trait (unknown when the record
\* has no behaviour structure at all)
TraitValue(animal, t) ==
    IF animal.behavior_traits = None THEN None
    ELSE Val(animal.behavior_traits)[t]

\* a requested trait rejects a record: its value is known and is below the
\* given min, above the given max, or different from the given exact
TraitRejects(animal, t, requirement) ==
    /\ TraitValue(animal, t) # None
    /\ \/ requirement.min # None
          /\ Val(TraitValue(animal, t)) < Val(requirement.min)
       \/ requirement.max # None
          /\ Val(TraitValue(animal, t)) > Val(requirement.max)
       \/ requirement.exact # None
          /\ Val(TraitValue(animal, t)) # Val(requirement.exact)

NoTraitRejects(animal, trait_requirements) ==
    \A t \in DOMAIN trait_requirements :
        ~TraitRejects(animal, t, trait_requirements[t])

\* C21 as stated: when behavior_traits is the only non-empty field, the
\* result of apply_filters is exactly the available records that no
\* requested trait rejects (a record passes if and only if no requested
\* trait rejects it).
C21_AsStated ==
    [][(/\ HardRan
        /\ raised' = "none"
        /\ NonEmptyFields(call'.criteria) = {"behavior_traits"})
       => LET reqs == Val(call'.criteria.behavior_traits)
              Kept(r) == IsAvailable(r) /\ NoTraitRejects(Rec(r), reqs)
          IN  ret'.rows = SelectSeq(animals.rows, Kept)]_vars

\* C21: behaviour trait requirements.  Whenever behavior_traits is a
\* non-empty field of the criteria, every record apply_filters returns has
\* a behaviour structure and is rejected by no requested trait, where a
\* trait rejects a record only if the record's value for it is known and is
\* below the given min, above the given max or different from the given
\* exact; when behavior_traits is the only non-empty field, the result is
\* exactly the available records that have a behaviour structure and that
\* no requested trait rejects, in the held order.
C21_BehaviorPredicate ==
    [][(/\ HardRan
        /\ raised' = "none"
        /\ "behavior_traits" \in NonEmptyFields(call'.criteria))
       => LET reqs == Val(call'.criteria.behavior_traits)
              Kept(r) == /\ IsAvailable(r)
                         /\ Rec(r).behavior_traits # None
                         /\ NoTraitRejects(Rec(r), reqs)
          IN  /\ \A r \in Rows(ret') : Kept(r)
              /\ NonEmptyFields(call'.criteria) = {"behavior_traits"}
                    => ret'.rows = SelectSeq(animals.rows, Kept)]_vars

C21_Witness ==
    /\ HardReturned
    /\ CalledOnData
    /\ NonEmptyFields(call.criteria) = {"behavior_traits"}
    /\ \E r \in Rows(ret) :
          \E t \in DOMAIN Val(call.criteria.behavior_traits) :
              TraitValue(Rec(r), t) = None
    /\ \E r \in Rows(animals) :
          /\ IsAvailable(r)
          /\ Rec(r).behavior_traits # None
          /\ r \notin Rows(ret)

\* a value lies within a tier of a preference; a bound the tier does not
\* give is 0 (min) or 100 (max), and a tier the preference does not give
\* is the range 0..100
WithinTier(value, tier) ==
    /\ (tier # None /\ Val(tier).min # None) => Val(Val(tier).min) <= value
    /\ (tier # None /\ Val(tier).max # None) => value <= Val(Val(tier).max)
    /\ 0 <= value /\ value <= 100

TierScore(value, preference) ==
    IF WithinTier(value, preference.preferred) THEN FOne
    ELSE IF WithinTier(value, preference.acceptable) THEN F07
    ELSE FZero

Contains(s, t) == IsSubstr(s, t) \/ IsSubstr(t, s)

\* the requested traits (positions of the list) that match at least one
\* hashtag of the record
MatchedTraits(animal, personality_traits) ==
    {i \in DOMAIN personality_traits :
        \E j \in DOMAIN animal.hashtags :
            Contains(personality_traits[i], animal.hashtags[j])}

\* C23: personality score.  In every score computed with a personality
\* trait list in the profile, the personality dimension score of a record
\* without hashtags is 1/2; of a record with hashtags it is the number of
\* requested traits that match at least one hashtag of the record (one
\* contains the other) divided by the number of requested traits, and 1/2
\* when the requested list is empty.
C23_PersonalityScore ==
    \A i \in DOMAIN match_scores :
        call.preferences.personality_traits # None =>
            LET animal == Fields(match_scores[i].a)
                personality_traits == Val(call.preferences.personality_traits)
                n == Cardinality(MatchedTraits(animal, personality_traits))
            IN  match_scores[i].dims.personality =
                    IF animal.hashtags = <<>> THEN Some(FHalf)
                    ELSE IF personality_traits = <<>> THEN Some(FHalf)
                    ELSE Some(Frac(n, Len(personality_traits)))

C23_Witness ==
    /\ SoftReturned
    /\ call.preferences.personality_traits # None
    /\ Val(call.preferences.personality_traits) # <<>>
    /\ \E i \in DOMAIN match_scores :
          LET animal == Fields(match_scores[i].a)
              personality_traits == Val(call.preferences.personality_traits)
          IN  /\ animal.hashtags # <<>>
              /\ match_scores[i].dims.personality = Some(FOne)
              /\ \A k \in DOMAIN personality_traits :
                    \A j \in DOMAIN animal.hashtags :
                        ~IsSubstr(personality_traits[k], animal.hashtags[j])
    /\ \E i \in DOMAIN match_scores :
          /\ Fields(match_scores[i].a).hashtags = <<>>
          /\ match_scores[i].dims.personality = Some(FHalf)

\* the traits of a preference map that are evaluated for a record: the
\* ones whose value is known in the record
Evaluated(animal, behavior_prefs) ==
    {t \in DOMAIN behavior_prefs : TraitValue(animal, t) # None}

\* the score of one evaluated trait whose preference gives an ideal
EvaluatedScore(value, preference) ==
    LET ideal == Val(preference.ideal)
        d == IF value >= ideal THEN value - ideal ELSE ideal - value
    IN  IF value = ideal THEN FOne
        ELSE IF value \in preference.acceptable THEN F07
        ELSE IF d >= 4 THEN FZero
        ELSE Frac(4 - d, 4)

RECURSIVE ScoreSum(_, _, _)
ScoreSum(S, animal, behavior_prefs) ==
    IF S = {} THEN FZero
    ELSE LET t == CHOOSE x \in S : TRUE
         IN  FAdd(EvaluatedScore(Val(TraitValue(animal, t)), behavior_prefs[t]),
                  ScoreSum(S \ {t}, animal, behavior_prefs))

\* C24: behavior score.  In every score computed with a behavior
\* preference map in the profile whose traits all give an ideal, the
\* behavior dimension score of a record is 1/2 when no trait of the map has
\* a known value in the record, and otherwise the average, over the traits
\* with a known value only, of 1 when the value equals ideal, 7/10 when it
\* is in the acceptable set, and max(0, 1 - |value - ideal| / 4) otherwise.
C24_BehaviorScore ==
    \A i \in DOMAIN match_scores :
        (/\ call.preferences.behavior_preferences # None
         /\ \A t \in DOMAIN Val(call.preferences.behavior_preferences) :
               Val(call.preferences.behavior_preferences)[t].ideal # None)
        => LET animal == Fields(match_scores[i].a)
               behavior_prefs == Val(call.preferences.behavior_preferences)
               S == Evaluated(animal, behavior_prefs)
           IN  match_scores[i].dims.behavior =
                   IF S = {} THEN Some(FHalf)
                   ELSE Some(FDiv(ScoreSum(S, animal, behavior_prefs),
                                  Frac(Cardinality(S), 1)))

C24_Witness ==
    /\ SoftReturned
    /\ call.preferences.behavior_preferences # None
    /\ LET behavior_prefs == Val(call.preferences.behavior_preferences)
       IN  /\ \A t \in DOMAIN behavior_prefs : behavior_prefs[t].ideal # None
           /\ \E i \in DOMAIN match_scores :
                 LET animal == Fields(match_scores[i].a)
                     S == Evaluated(animal, behavior_prefs)
                 IN  /\ S # {}
                     /\ S # DOMAIN behavior_prefs
                     /\ match_scores[i].dims.behavior = Some(<<3, 4>>)
           /\ \E i \in DOMAIN match_scores :
                 LET animal == Fields(match_scores[i].a)
                 IN  /\ Evaluated(animal, behavior_prefs) = DOMAIN behavior_prefs
                     /\ match_scores[i].dims.behavior = Some(<<29, 40>>)

\* the profiles of the batch whose hard step has returned
HardDone == 1..Len(batch.hard_results)

\* C25: batch profiles are independent.  In batch_processing_mode, for
\* every profile that has hard_filters, the hard-filter result of the
\* profile has the rows that apply_filters of its hard_filters returns on
\* the full loaded record set, whichever profiles were processed before it.
C25_BatchIndependence ==
    \A k \in HardDone :
        LET profile == batch.user_profiles[k]
        IN  profile.hard_filters # None =>
                LET full == apply_filters(processed_data,
                                          Val(profile.hard_filters))
                IN  ~IsErr(full) => batch.hard_results[k].rows = full.rows

\* the profiles of the batch that have preferences
WithPreferences ==
    {k \in DOMAIN batch.user_profiles :
        batch.user_profiles[k].preferences # None}

\* C27: batch processing completes for every profile.  When
\* batch_processing_mode has ended on loaded data that has at least one
\* record, it has reached the end of the loop and results_summary has
\* exactly one entry for every profile that has preferences, also when the
\* hard filters of an earlier profile matched no record.
C27_BatchCompletes ==
    (/\ batch.pc \in {"done", "failed"}
     /\ Len(processed_data.rows) > 0)
    => /\ batch.pc = "done"
       /\ Len(batch.results_summary) = Cardinality(WithPreferences)
       /\ {batch.results_summary[j].user : j \in DOMAIN batch.results_summary}
              = WithPreferences

\* the last call of apply_filters or apply_soft_filtering returned
LastCallReturned == call.op # "none" /\ raised = "none"

\* C26: held result tracks the last call.  After any sequence of
\* set_animals, apply_filters and apply_soft_filtering calls of which the
\* last apply_filters or apply_soft_filtering call returned, get_results()
\* has exactly the rows that call returned, also when the call returned an
\* empty result because the engine held no records or no available record.
C26_ResultTracksLastCall ==
    LastCallReturned => get_results.rows = ret.rows

\* C28: soft scoring on an empty engine.  An apply_soft_filtering call on
\* an engine that holds no records (constructed without data, or after
\* set_animals with the empty collection apply_filters returned) ends
\* without an error and returns no candidate.
C28_SoftOnEmptyEngine ==
    (call.op = "apply_soft_filtering" /\ Len(animals.rows) = 0)
        => raised = "none" /\ Len(ret.rows) = 0

\* the criterion fields a criteria dict has
FieldsOf(c) == {k \in CriteriaKeys : c[k] # None}

\* the union of two criteria dicts over disjoint fields
Merge(c1, c2) == [k \in CriteriaKeys |-> IF c1[k] # None THEN c1[k] ELSE c2[k]]

\* apply_filters(c1), set_animals(result), apply_filters(c2) on the frame
\* df; an error of the first call is the outcome
Narrowed(df, c1, c2) ==
    LET first == apply_filters(df, c1)
    IN  IF IsErr(first) THEN first ELSE apply_filters(first, c2)

\* the step is apply_filters(C2) on an engine that holds the result of
\* apply_filters(C1) on the loaded data, C1 and C2 over disjoint fields
NarrowingStep ==
    /\ HardRan
    /\ call.op = "apply_filters"
    /\ raised = "none"
    /\ call.on = "data"
    /\ loaded = "result"
    /\ animals = ret
    /\ FieldsOf(call.criteria) \cap FieldsOf(call'.criteria) = {}

\* C29: sequential narrowing equals combined criteria.  For criteria C1
\* and C2 over disjoint fields, apply_filters(C1) on the loaded data,
\* set_animals(result) and apply_filters(C2) returns the rows, in the same
\* order, that one apply_filters with the union of C1 and C2 returns on the
\* loaded data, and that C2 first and C1 second returns: whenever the
\* narrowing sequence returns, the other two return too, with these rows.
C29_SequentialNarrowing ==
    [][NarrowingStep
       => LET combined == apply_filters(processed_data,
                                        Merge(call.criteria, call'.criteria))
              reversed == Narrowed(processed_data, call'.criteria,
                                   call.criteria)
          IN  raised' = "none"
                 => /\ ~IsErr(combined) /\ ret'.rows = combined.rows
                    /\ ~IsErr(reversed) /\ ret'.rows = reversed.rows]_vars

\* the same equalities for the calls that return: whenever the narrowing
\* sequence, the combined call and the reversed sequence all return, they
\* return the same rows in the same order
C29_WhenAllReturn ==
    [][NarrowingStep
       => LET combined == apply_filters(processed_data,
                                        Merge(call.criteria, call'.criteria))
              reversed == Narrowed(processed_data, call'.criteria,
                                   call.criteria)
          IN  (raised' = "none" /\ ~IsErr(combined) /\ ~IsErr(reversed))
                 => ret'.rows = combined.rows /\ ret'.rows = reversed.rows]_vars

\* C30: soft scoring applies the status gate.  Every candidate in a result
\* of apply_soft_filtering is a record of the held collection that has the
\* available status, whatever its score and also when the collection is the
\* loaded data that never went through apply_filters; a held record
\* without the available status is in no result.
C30_SoftStatusGate ==
    [][(SoftRan /\ raised' = "none")
       => /\ \A r \in Rows(ret') : IsAvailable(r)
          /\ \A r \in Rows(ret') :
                \E h \in Rows(animals) : h.idx = r.idx /\ h.a = r.a
          /\ \A h \in Rows(animals) :
                ~IsAvailable(h) => \A r \in Rows(ret') : r.idx # h.idx]_vars

C30_Witness ==
    /\ SoftReturned
    /\ CalledOnData
    /\ filtered_results = ret
    /\ Len(ret.rows) > 0
    /\ \E h \in Rows(animals) :
          /\ ~IsAvailable(h)
          /\ FLeq(call.threshold,
                  _calculate_match_score(Rec(h), call.preferences))
          /\ \A r \in Rows(ret) : r.idx # h.idx

====
